---- MODULE Spec2Model ----
(***************************************************************************)
(* Model of the manual layout mapper (scripts/complete_manual_mapper.py    *)
(* and scripts/mapper_utils.py): 68 clicked points are resolved into       *)
(* rectangles, extrapolated, stamped with hero orders, mirrored to the     *)
(* right half of the screen, combined into one document and validated.     *)
(* Further specifications cover validate_coordinates on edited documents   *)
(* (SpecValidate), main from the click backup to the output file           *)
(* (SpecMain), two calls of the calculation in one process (SpecTwice) and *)
(* the click collection of collect_68_clicks (SpecCollect).                *)
(*                                                                         *)
(* Python lists are sequences; a Python index i is the sequence index      *)
(* i + 1.  An Optional field holds None (the empty tuple) or Some(v) (the  *)
(* one-element tuple), so that Coord.to_dict is a real conversion.         *)
(***************************************************************************)
EXTENDS Integers, Sequences, FiniteSets, TLC

VARIABLES
    points,            \* argument of calculate_coordinates_from_clicks
    screen_width,      \* argument of calculate_coordinates_from_clicks
    screen_height,     \* main: img.shape[0], handed to validate_coordinates
    pc,                \* position in calculate_coordinates_from_clicks / main
    idx,               \* the running click index
    left_ultimates, left_standards, left_models,
    hero0_dims, hero1_dims, ability1_dims, ability2_dims,
    left_heroes, left_selected,
    right_ultimates, right_standards, right_models,
    right_heroes, right_selected,
    coords,            \* the document being assembled
    validation,        \* result of validate_coordinates
    clicked_points,    \* the module-level click list
    zoom_mode,         \* collect_68_clicks: the 2x zoom toggle
    loupe_mode,        \* collect_68_clicks: the loupe toggle
    event,             \* collect_68_clicks: the key or mouse event handled last
    files,             \* main: the files written so far
    response,          \* main: the operator's answer to the continue prompt
    run,               \* number of the current call of calculate_coordinates_from_clicks
    first_coords       \* the document the first call returned

vars == <<points, screen_width, screen_height, pc, idx,
          left_ultimates, left_standards, left_models,
          hero0_dims, hero1_dims, ability1_dims, ability2_dims,
          left_heroes, left_selected,
          right_ultimates, right_standards, right_models,
          right_heroes, right_selected, coords, validation,
          clicked_points, zoom_mode, loupe_mode, event, files, response,
          run, first_coords>>

----------------------------------------------------------------------------
(* Bounds of the explored inputs *)

\* one click of the reference layout is displaced by at most this many pixels
MaxDelta == 2
\* point sequences up to this many clicks short of the expected number
MaxShort == 5
\* point sequences up to this many clicks longer than the expected number
MaxExtra == 2

----------------------------------------------------------------------------
(* Optional values and the Coord dataclass *)

None == <<>>
Some(v) == <<v>>
Val(o) == o[1]

\* Coord(x=..., y=..., width=None, ...): the dataclass constructor with defaults
Coord(x, y, width, height, hero_order, ability_order, is_ultimate) ==
    [x |-> x, y |-> y, width |-> width, height |-> height,
     hero_order |-> hero_order, ability_order |-> ability_order,
     is_ultimate |-> is_ultimate]

\* Coord(**dims) for a dims dict {x, y, width, height}
CoordFromDims(dims) ==
    Coord(dims.x, dims.y, Some(dims.width), Some(dims.height), None, None, None)

OptionalFields == {"width", "height", "hero_order", "ability_order", "is_ultimate"}

\* Coord.to_dict: x and y always, every other field only when it is not None
to_dict_with_nulls(c) ==
    [k \in {"x", "y"} \cup OptionalFields |->
        IF k \in {"x", "y"} \/ c[k] = None THEN c[k] ELSE Val(c[k])]

to_dict(c) ==
    [k \in {"x", "y"} \cup {f \in OptionalFields : c[f] # None} |->
        IF k \in {"x", "y"} THEN c[k] ELSE Val(c[k])]

\* dict.get(key, default)
Get(d, key, default) == IF key \in DOMAIN d THEN d[key] ELSE default

\* [c.to_dict() for c in seq]
ToDicts(seq) == [i \in 1..Len(seq) |-> to_dict(seq[i])]

----------------------------------------------------------------------------
(* Corner resolution *)

calculate_from_bottom_left_top_right_top_minus_bottom(bl, tr) ==
    [x |-> bl[1], y |-> tr[2], width |-> tr[1] - bl[1], height |-> tr[2] - bl[2]]

calculate_from_bottom_left_top_right(bl, tr) ==
    [x |-> bl[1], y |-> tr[2], width |-> tr[1] - bl[1], height |-> bl[2] - tr[2]]

calculate_from_top_left_bottom_right(tl, br) ==
    [x |-> tl[1], y |-> tl[2], width |-> br[1] - tl[1], height |-> br[2] - tl[2]]

----------------------------------------------------------------------------
(* Mirroring.  screen_width / 2 is Python's true division: the float it    *)
(* gives is the exact rational num/2, carried here as numerator and        *)
(* denominator; int() truncates toward zero.                               *)

TrueDiv(n, d) == [num |-> n, den |-> d]
RatTimesInt(k, q) == [num |-> k * q.num, den |-> q.den]
RatMinusInt(q, k) == [num |-> q.num - k * q.den, den |-> q.den]
IntTrunc(q) ==
    IF q.num >= 0 THEN q.num \div q.den ELSE -((-q.num) \div q.den)

mirror_coordinate_floor(x, y, width, height, sw) ==
    LET screen_center == TrueDiv(2 * (sw \div 2), 2)
    IN  <<IntTrunc(RatMinusInt(RatMinusInt(RatTimesInt(2, screen_center), x), width)), y>>

mirror_coordinate(x, y, width, height, sw) ==
    LET screen_center == TrueDiv(sw, 2)
    IN  <<IntTrunc(RatMinusInt(RatMinusInt(RatTimesInt(2, screen_center), x), width)), y>>

----------------------------------------------------------------------------
(* Left-side generation *)

calculate_hero_spacing(hero0, hero1) == hero1.y - hero0.y

calculate_ability_spacing(ability1, ability2) == ability2.x - ability1.x

\* y of generated hero i (2, 3, 4)
GeneratedHeroY_from_hero0(hero0, hero1, i) ==
    hero0.y + (i - 1) * calculate_hero_spacing(hero0, hero1)

GeneratedHeroY(hero0, hero1, i) ==
    hero1.y + (i - 1) * calculate_hero_spacing(hero0, hero1)

\* range(2, 5) of generate_heroes
generate_heroes_six(hero0, hero1, heroes_params) ==
    <<Coord(hero0.x, hero0.y, None, None, Some(0), None, None),
      Coord(hero1.x, hero1.y, None, None, Some(1), None, None)>>
    \o [k \in 1..4 |->
          Coord(hero0.x, GeneratedHeroY(hero0, hero1, k + 1),
                None, None, Some(k + 1), None, None)]

generate_heroes(hero0, hero1, heroes_params) ==
    <<Coord(hero0.x, hero0.y, None, None, Some(0), None, None),
      Coord(hero1.x, hero1.y, None, None, Some(1), None, None)>>
    \o [k \in 1..3 |->
          Coord(hero0.x, GeneratedHeroY(hero0, hero1, k + 1),
                None, None, Some(k + 1), None, None)]

\* is_ultimate=(slot_idx == 3)
IsUltimateSlot_first(slot_idx) == slot_idx = 0

IsUltimateSlot(slot_idx) == slot_idx = 3

\* hero0_slots: the four slots of hero 0
Hero0Slots(ability1, ability2) ==
    [s \in 1..4 |->
        Coord(ability1.x + (s - 1) * calculate_ability_spacing(ability1, ability2),
              ability1.y, None, None, Some(0), None, Some(IsUltimateSlot(s - 1)))]

generate_selected_abilities(ability1, ability2, heroes, selected_params) ==
    LET hero0_slots == Hero0Slots(ability1, ability2)
        hero0_y == heroes[1].y
    IN  [n \in 1..(4 * Len(heroes)) |->
            LET hero == heroes[((n - 1) \div 4) + 1]
                slot_idx == (n - 1) % 4
                y_offset == hero.y - hero0_y
            IN  Coord(hero0_slots[slot_idx + 1].x,
                      hero0_slots[slot_idx + 1].y + y_offset,
                      None, None, hero.hero_order, None,
                      Some(IsUltimateSlot(slot_idx)))]

----------------------------------------------------------------------------
(* Mirroring of a list of elements *)

OffsetTypes == {"heroes", "models", "selected_abilities"}

\* hero_order_offset.get(element_type, 0)
hero_order_offset(element_type) ==
    IF element_type \in OffsetTypes THEN 5 ELSE 0

\* the hero order mapping of mirror_elements_to_right, on an Optional
MirrorHeroOrder_plain_offset(hero_order, element_type) ==
    IF hero_order # None
    THEN IF element_type \in OffsetTypes
         THEN Some(Val(hero_order) + hero_order_offset(element_type))
         ELSE hero_order
    ELSE None

MirrorHeroOrder(hero_order, element_type) ==
    IF hero_order # None
    THEN IF Val(hero_order) = 10
         THEN Some(11)
         ELSE IF element_type \in OffsetTypes
              THEN Some(Val(hero_order) + hero_order_offset(element_type))
              ELSE hero_order
    ELSE None

MirrorElement_drops_flags(elem, sw, element_type, has_dimensions, element_width, element_height) ==
    LET width == IF has_dimensions THEN Val(elem.width) ELSE element_width
        height == IF has_dimensions THEN Val(elem.height) ELSE element_height
        m == mirror_coordinate(elem.x, elem.y, width, height, sw)
    IN  Coord(m[1], m[2],
              IF has_dimensions THEN Some(width) ELSE None,
              IF has_dimensions THEN Some(height) ELSE None,
              MirrorHeroOrder(elem.hero_order, element_type),
              None, None)

MirrorElement(elem, sw, element_type, has_dimensions, element_width, element_height) ==
    LET width == IF has_dimensions THEN Val(elem.width) ELSE element_width
        height == IF has_dimensions THEN Val(elem.height) ELSE element_height
        m == mirror_coordinate(elem.x, elem.y, width, height, sw)
    IN  Coord(m[1], m[2],
              IF has_dimensions THEN Some(width) ELSE None,
              IF has_dimensions THEN Some(height) ELSE None,
              MirrorHeroOrder(elem.hero_order, element_type),
              elem.ability_order, elem.is_ultimate)

mirror_elements_to_right(left_elements, sw, element_type, has_dimensions, element_width, element_height) ==
    [i \in 1..Len(left_elements) |->
        MirrorElement(left_elements[i], sw, element_type, has_dimensions,
                      element_width, element_height)]

----------------------------------------------------------------------------
(* Hero order tables *)

UltimateOrders_offset(is_left_side) ==
    IF is_left_side THEN <<0, 1, 2, 3, 4, 10>> ELSE <<5, 6, 7, 8, 9, 11>>

UltimateOrders(is_left_side) ==
    IF is_left_side THEN <<0, 1, 2, 3, 4, 10>> ELSE <<7, 6, 5, 11, 9, 8>>

apply_ultimate_hero_orders(ultimates, is_left_side) ==
    [i \in 1..Len(ultimates) |->
        [ultimates[i] EXCEPT !.hero_order = Some(UltimateOrders(is_left_side)[i])]]

StandardHeroOrders_one_side(is_left_side) == <<0, 1, 2, 3, 4, 10>>

StandardHeroOrders(is_left_side) ==
    IF is_left_side THEN <<0, 1, 2, 3, 4, 10>> ELSE <<5, 6, 7, 8, 9, 11>>

\* ability_order = col_idx + 1
StandardAbilityOrder_zero_based(col_idx) == col_idx

StandardAbilityOrder(col_idx) == col_idx + 1

\* rows 0..5, columns 0..2: idx = row_idx * 3 + col_idx
apply_standard_hero_orders(standards, is_left_side) ==
    [n \in 1..Len(standards) |->
        IF n <= 6 * 3
        THEN LET row_idx == (n - 1) \div 3
                 col_idx == (n - 1) % 3
             IN  [standards[n] EXCEPT
                    !.hero_order = Some(StandardHeroOrders(is_left_side)[row_idx + 1]),
                    !.ability_order = Some(StandardAbilityOrder(col_idx))]
        ELSE standards[n]]

\* model_hero_orders of calculate_coordinates_from_clicks
ModelHeroOrders == <<0, 1, 2, 3, 4, 10>>

ApplyModelHeroOrders(models) ==
    [i \in 1..Len(models) |->
        [models[i] EXCEPT !.hero_order = Some(ModelHeroOrders[i])]]

----------------------------------------------------------------------------
(* validate_coordinates *)

CategoriesWithDims == <<"ultimate_slots_coords", "standard_slots_coords", "models_coords">>

CategoriesWithParams ==
    <<[category |-> "heroes_coords", params_key |-> "heroes_params"],
      [category |-> "selected_abilities_coords", params_key |-> "selected_abilities_params"]>>

\* expected_counts, in the dict's insertion order
ExpectedCounts ==
    <<[category |-> "ultimate_slots_coords", expected |-> 12],
      [category |-> "standard_slots_coords", expected |-> 36],
      [category |-> "heroes_coords", expected |-> 10],
      [category |-> "selected_abilities_coords", expected |-> 40],
      [category |-> "models_coords", expected |-> 12]>>

Error(category, index, kind) == [category |-> category, index |-> index, kind |-> kind]

\* the three boundary checks made on one item (index is the Python index)
ItemErrors_inclusive(category, index, item, item_width, item_height, width, height) ==
    (IF item.x < 0 \/ item.y < 0
     THEN <<Error(category, index, "Negative coordinates")>> ELSE <<>>)
    \o (IF item.x + item_width >= width
        THEN <<Error(category, index, "Extends beyond width")>> ELSE <<>>)
    \o (IF item.y + item_height >= height
        THEN <<Error(category, index, "Extends beyond height")>> ELSE <<>>)

ItemErrors(category, index, item, item_width, item_height, width, height) ==
    (IF item.x < 0 \/ item.y < 0
     THEN <<Error(category, index, "Negative coordinates")>> ELSE <<>>)
    \o (IF item.x + item_width > width
        THEN <<Error(category, index, "Extends beyond width")>> ELSE <<>>)
    \o (IF item.y + item_height > height
        THEN <<Error(category, index, "Extends beyond height")>> ELSE <<>>)

RECURSIVE Flatten(_)
Flatten(seqs) ==
    IF seqs = <<>> THEN <<>> ELSE Head(seqs) \o Flatten(Tail(seqs))

DimsCategoryErrors(doc, category, width, height) ==
    IF category \notin DOMAIN doc THEN <<>>
    ELSE Flatten([i \in 1..Len(doc[category]) |->
            ItemErrors(category, i - 1, doc[category][i],
                       Get(doc[category][i], "width", 0),
                       Get(doc[category][i], "height", 0), width, height)])

ParamsCategoryErrors(doc, category, params_key, width, height) ==
    IF category \notin DOMAIN doc \/ params_key \notin DOMAIN doc THEN <<>>
    ELSE Flatten([i \in 1..Len(doc[category]) |->
            ItemErrors(category, i - 1, doc[category][i],
                       doc[params_key].width, doc[params_key].height,
                       width, height)])

CountErrors(doc, category, expected) ==
    IF category \notin DOMAIN doc
    THEN <<Error(category, -1, "Missing category")>>
    ELSE IF Len(doc[category]) # expected
         THEN <<Error(category, -1, "Expected count")>>
         ELSE <<>>

validate_coordinates(doc, width, height) ==
    LET errors ==
            Flatten([c \in 1..Len(CategoriesWithDims) |->
                DimsCategoryErrors(doc, CategoriesWithDims[c], width, height)])
            \o Flatten([c \in 1..Len(CategoriesWithParams) |->
                ParamsCategoryErrors(doc, CategoriesWithParams[c].category,
                                     CategoriesWithParams[c].params_key, width, height)])
            \o Flatten([c \in 1..Len(ExpectedCounts) |->
                CountErrors(doc, ExpectedCounts[c].category, ExpectedCounts[c].expected)])
    IN  [passed |-> errors = <<>>, errors |-> errors, warnings |-> <<>>]

----------------------------------------------------------------------------
(* Inputs.  The explored point sequences are a reference layout of the     *)
(* left half (in the click order of calculate_coordinates_from_clicks)     *)
(* with one click displaced, and the reference layout cut short or         *)
(* extended by surplus points.                                             *)

\* the numbers of rectangles clicked per category
NumUltimates == 6
NumStandards == 18
NumModels == 6
NumHeroAnchors == 2
NumAbilityAnchors == 2

\* the expected number of clicks
NumClicks ==
    2 * (NumUltimates + NumStandards + NumModels + NumHeroAnchors + NumAbilityAnchors)

\* rectangle j (0-based, in click order) of the reference layout, as x, y, w, h
ReferenceRect(j) ==
    IF j < NumUltimates
    THEN [x |-> 2 + 4 * (j % 3), y |-> 2 + 4 * (j \div 3), w |-> 1, h |-> 1]
    ELSE IF j < NumUltimates + NumStandards
    THEN LET n == j - NumUltimates
         IN  [x |-> 16 + 4 * (n % 3), y |-> 2 + 4 * (n \div 3), w |-> 1, h |-> 1]
    ELSE IF j < NumUltimates + NumStandards + NumModels
    THEN LET n == j - NumUltimates - NumStandards
         IN  [x |-> 30, y |-> 2 + 4 * n, w |-> 1, h |-> 1]
    ELSE IF j < NumUltimates + NumStandards + NumModels + NumHeroAnchors
    THEN LET n == j - NumUltimates - NumStandards - NumModels
         IN  [x |-> 36, y |-> 2 + 5 * n, w |-> 2, h |-> 1]
    ELSE LET n == j - NumUltimates - NumStandards - NumModels - NumHeroAnchors
         IN  [x |-> 2 + 3 * n, y |-> 30, w |-> 1, h |-> 1]

\* click k (1-based) of the reference layout: ultimates are clicked bottom-left
\* then top-right, everything else top-left then bottom-right
ReferenceClick(k) ==
    LET j == (k - 1) \div 2
        second == (k - 1) % 2 = 1
        r == ReferenceRect(j)
    IN  IF k > NumClicks THEN <<k, k>>
        ELSE IF j < NumUltimates
        THEN IF second THEN <<r.x + r.w, r.y>> ELSE <<r.x, r.y + r.h>>
        ELSE IF second THEN <<r.x + r.w, r.y + r.h>> ELSE <<r.x, r.y>>

Deltas == (-MaxDelta)..MaxDelta

ScreenWidths == {100, 101}
ScreenHeights == {51, 60}

\* the lengths of the explored point sequences
Lengths ==
    {0, 2 * NumUltimates - 1, 2 * (NumUltimates + NumStandards) + 1,
     2 * (NumUltimates + NumStandards + NumModels) + 3}
    \cup ((NumClicks - MaxShort)..(NumClicks + MaxExtra))

\* the reference layout with click k displaced by (dx, dy), n clicks long
InputPoints(n, k, dx, dy) ==
    [i \in 1..n |->
        IF i = k
        THEN <<ReferenceClick(i)[1] + dx, ReferenceClick(i)[2] + dy>>
        ELSE ReferenceClick(i)]

\* displacements of a click: at most MaxDelta pixels in all
Abs(n) == IF n < 0 THEN -n ELSE n
Displacements ==
    {d \in Deltas \X Deltas : Abs(d[1]) + Abs(d[2]) <= MaxDelta}

Inputs ==
    {InputPoints(NumClicks, k, d[1], d[2]) : k \in 1..NumClicks, d \in Displacements}
    \cup {InputPoints(n, 1, 0, 0) : n \in Lengths}

----------------------------------------------------------------------------
(* calculate_coordinates_from_clicks, then main's call of validate_coordinates *)

Init ==
    /\ points \in Inputs
    /\ screen_width \in ScreenWidths
    /\ screen_height \in ScreenHeights
    /\ pc = "parse_ultimates"
    /\ idx = 0
    /\ left_ultimates = <<>> /\ left_standards = <<>> /\ left_models = <<>>
    /\ hero0_dims = <<>> /\ hero1_dims = <<>>
    /\ ability1_dims = <<>> /\ ability2_dims = <<>>
    /\ left_heroes = <<>> /\ left_selected = <<>>
    /\ right_ultimates = <<>> /\ right_standards = <<>> /\ right_models = <<>>
    /\ right_heroes = <<>> /\ right_selected = <<>>
    /\ coords = <<>>
    /\ validation = <<>>
    /\ clicked_points = <<>>
    /\ zoom_mode = FALSE /\ loupe_mode = FALSE /\ event = "none"
    /\ files = {} /\ response = None
    /\ run = 1 /\ first_coords = <<>>

\* points[i] for a Python index i >= 0 raises IndexError when i >= len(points)
InRange(i) == i < Len(points)
At(i) == points[i + 1]

\* the rectangles resolved from count corner pairs starting at Python index
\* from, clicked bottom-left then top-right
ParsePairsBottomLeftTopRight(from, count) ==
    [i \in 1..count |->
        CoordFromDims(calculate_from_bottom_left_top_right(
            At(from + 2 * (i - 1)), At(from + 2 * (i - 1) + 1)))]

\* the same, clicked top-left then bottom-right
ParsePairsTopLeftBottomRight(from, count) ==
    [i \in 1..count |->
        CoordFromDims(calculate_from_top_left_bottom_right(
            At(from + 2 * (i - 1)), At(from + 2 * (i - 1) + 1)))]

rightVars == <<right_ultimates, right_standards, right_models, right_heroes, right_selected>>
anchorVars == <<hero0_dims, hero1_dims, ability1_dims, ability2_dims>>
inputVars == <<points, screen_width, screen_height>>
collectVars == <<clicked_points, zoom_mode, loupe_mode, event>>
mainVars == <<files, response>>
callVars == <<run, first_coords>>

ParseUltimates ==
    /\ pc = "parse_ultimates"
    /\ IF InRange(idx + 2 * NumUltimates - 1)
       THEN /\ left_ultimates' =
                 ParsePairsBottomLeftTopRight(idx, NumUltimates)
            /\ idx' = idx + 2 * NumUltimates
            /\ pc' = "parse_standards"
       ELSE /\ pc' = "IndexError"
            /\ UNCHANGED <<left_ultimates, idx>>
    /\ UNCHANGED <<inputVars, left_standards, left_models, anchorVars,
                   left_heroes, left_selected, rightVars, coords, validation>>
    /\ UNCHANGED <<collectVars, mainVars, callVars>>

ParseStandards ==
    /\ pc = "parse_standards"
    /\ IF InRange(idx + 2 * NumStandards - 1)
       THEN /\ left_standards' =
                 ParsePairsTopLeftBottomRight(idx, NumStandards)
            /\ idx' = idx + 2 * NumStandards
            /\ pc' = "parse_models"
       ELSE /\ pc' = "IndexError"
            /\ UNCHANGED <<left_standards, idx>>
    /\ UNCHANGED <<inputVars, left_ultimates, left_models, anchorVars,
                   left_heroes, left_selected, rightVars, coords, validation>>
    /\ UNCHANGED <<collectVars, mainVars, callVars>>

ParseModels ==
    /\ pc = "parse_models"
    /\ IF InRange(idx + 2 * NumModels - 1)
       THEN /\ left_models' =
                 ParsePairsTopLeftBottomRight(idx, NumModels)
            /\ idx' = idx + 2 * NumModels
            /\ pc' = "parse_heroes"
       ELSE /\ pc' = "IndexError"
            /\ UNCHANGED <<left_models, idx>>
    /\ UNCHANGED <<inputVars, left_ultimates, left_standards, anchorVars,
                   left_heroes, left_selected, rightVars, coords, validation>>
    /\ UNCHANGED <<collectVars, mainVars, callVars>>

ParseHeroes ==
    /\ pc = "parse_heroes"
    /\ IF InRange(idx + 2 * NumHeroAnchors - 1)
       THEN /\ hero0_dims' = calculate_from_top_left_bottom_right(At(idx), At(idx + 1))
            /\ hero1_dims' = calculate_from_top_left_bottom_right(At(idx + 2), At(idx + 3))
            /\ idx' = idx + 2 * NumHeroAnchors
            /\ pc' = "parse_selected"
       ELSE /\ pc' = "IndexError"
            /\ UNCHANGED <<hero0_dims, hero1_dims, idx>>
    /\ UNCHANGED <<inputVars, left_ultimates, left_standards, left_models,
                   ability1_dims, ability2_dims,
                   left_heroes, left_selected, rightVars, coords, validation>>
    /\ UNCHANGED <<collectVars, mainVars, callVars>>

ParseSelected ==
    /\ pc = "parse_selected"
    /\ IF InRange(idx + 2 * NumAbilityAnchors - 1)
       THEN /\ ability1_dims' = calculate_from_top_left_bottom_right(At(idx), At(idx + 1))
            /\ ability2_dims' = calculate_from_top_left_bottom_right(At(idx + 2), At(idx + 3))
            /\ pc' = "generate"
       ELSE /\ pc' = "IndexError"
            /\ UNCHANGED <<ability1_dims, ability2_dims>>
    /\ UNCHANGED <<inputVars, idx, left_ultimates, left_standards, left_models,
                   hero0_dims, hero1_dims,
                   left_heroes, left_selected, rightVars, coords, validation>>
    /\ UNCHANGED <<collectVars, mainVars, callVars>>

\* heroes_params, selected_abilities_params, generate_heroes, generate_selected_abilities
GenerateLeft ==
    /\ pc = "generate"
    /\ LET heroes_params == [width |-> hero0_dims.width, height |-> hero0_dims.height]
           selected_params == [width |-> ability1_dims.width, height |-> ability1_dims.height]
           heroes == generate_heroes(hero0_dims, hero1_dims, heroes_params)
       IN  /\ coords' = [heroes_params |-> heroes_params,
                         selected_abilities_params |-> selected_params]
           /\ left_heroes' = heroes
           /\ left_selected' =
                generate_selected_abilities(ability1_dims, ability2_dims, heroes,
                                            selected_params)
    /\ pc' = "apply_left"
    /\ UNCHANGED <<inputVars, idx, left_ultimates, left_standards, left_models,
                   anchorVars, rightVars, validation>>
    /\ UNCHANGED <<collectVars, mainVars, callVars>>

\* hero orders of the left ultimates, standards and models
ApplyLeftOrders ==
    /\ pc = "apply_left"
    /\ left_ultimates' = apply_ultimate_hero_orders(left_ultimates, TRUE)
    /\ left_standards' = apply_standard_hero_orders(left_standards, TRUE)
    /\ left_models' = ApplyModelHeroOrders(left_models)
    /\ pc' = "mirror"
    /\ UNCHANGED <<inputVars, idx, anchorVars, left_heroes, left_selected,
                   rightVars, coords, validation>>
    /\ UNCHANGED <<collectVars, mainVars, callVars>>

\* what mirror_elements_to_right returns for the left ultimates, before the
\* right-side table is applied to it
MirroredUltimates ==
    mirror_elements_to_right(left_ultimates, screen_width, "ultimates", TRUE, 0, 0)

MirroredStandards ==
    mirror_elements_to_right(left_standards, screen_width, "standards", TRUE, 0, 0)

MirrorToRight ==
    /\ pc = "mirror"
    /\ right_ultimates' = apply_ultimate_hero_orders(MirroredUltimates, FALSE)
    /\ right_standards' = apply_standard_hero_orders(MirroredStandards, FALSE)
    /\ right_models' =
         mirror_elements_to_right(left_models, screen_width, "models", TRUE, 0, 0)
    /\ right_heroes' =
         mirror_elements_to_right(left_heroes, screen_width, "heroes", FALSE,
                                  coords.heroes_params.width,
                                  coords.heroes_params.height)
    /\ right_selected' =
         mirror_elements_to_right(left_selected, screen_width, "selected_abilities",
                                  FALSE,
                                  coords.selected_abilities_params.width,
                                  coords.selected_abilities_params.height)
    /\ pc' = "combine"
    /\ UNCHANGED <<inputVars, idx, left_ultimates, left_standards, left_models,
                   anchorVars, left_heroes, left_selected, coords, validation>>
    /\ UNCHANGED <<collectVars, mainVars, callVars>>

\* the five category lists, left + right, each element through to_dict
Combine ==
    /\ pc = "combine"
    /\ coords' =
         [heroes_params |-> coords.heroes_params,
          selected_abilities_params |-> coords.selected_abilities_params,
          ultimate_slots_coords |-> ToDicts(left_ultimates \o right_ultimates),
          standard_slots_coords |-> ToDicts(left_standards \o right_standards),
          models_coords |-> ToDicts(left_models \o right_models),
          heroes_coords |-> ToDicts(left_heroes \o right_heroes),
          selected_abilities_coords |-> ToDicts(left_selected \o right_selected)]
    /\ pc' = "returned"
    /\ UNCHANGED <<inputVars, idx, left_ultimates, left_standards, left_models,
                   anchorVars, left_heroes, left_selected, rightVars, validation>>
    /\ UNCHANGED <<collectVars, mainVars, callVars>>

\* main: validation = validate_coordinates(calculated_coords, screen_width, screen_height)
Validate ==
    /\ pc = "returned"
    /\ validation' = validate_coordinates(coords, screen_width, screen_height)
    /\ pc' = "validated"
    /\ UNCHANGED <<inputVars, idx, left_ultimates, left_standards, left_models,
                   anchorVars, left_heroes, left_selected, rightVars, coords>>
    /\ UNCHANGED <<collectVars, mainVars, callVars>>

Next ==
    \/ ParseUltimates
    \/ ParseStandards
    \/ ParseModels
    \/ ParseHeroes
    \/ ParseSelected
    \/ GenerateLeft
    \/ ApplyLeftOrders
    \/ MirrorToRight
    \/ Combine
    \/ Validate

Spec == Init /\ [][Next]_vars

----------------------------------------------------------------------------
(* validate_coordinates on documents handed to it directly *)

\* the five category keys of a document
Categories ==
    {"ultimate_slots_coords", "standard_slots_coords", "models_coords",
     "heroes_coords", "selected_abilities_coords"}

\* the ways a document is changed before it is handed to validate_coordinates:
\* not at all, a category removed, a category one region short or one long
Edits ==
    {[op |-> "none", category |-> "heroes_coords"]}
    \cup [op : {"remove", "drop_last", "repeat_last"}, category : Categories]

EditDocument(doc, e) ==
    IF e.op = "remove"
    THEN [k \in (DOMAIN doc) \ {e.category} |-> doc[k]]
    ELSE IF e.op = "drop_last"
    THEN [doc EXCEPT ![e.category] = SubSeq(@, 1, Len(@) - 1)]
    ELSE IF e.op = "repeat_last"
    THEN [doc EXCEPT ![e.category] = Append(@, @[Len(@)])]
    ELSE doc

\* the screen heights the documents are validated against
ValidateHeights == {50, 51}

\* the point sequences whose documents are validated
FullInputs ==
    {InputPoints(NumClicks, k, d[1], d[2]) : k \in 1..NumClicks, d \in Displacements}

\* the clicks whose displaced layouts are also validated after an edit
EditedClicks == {1, 2 * (NumUltimates + NumStandards + NumModels) + 1}

EditedInputs ==
    {InputPoints(NumClicks, k, d[1], d[2]) : k \in EditedClicks, d \in Displacements}

InitValidate ==
    /\ points \in FullInputs
    /\ screen_width \in ScreenWidths
    /\ screen_height \in ValidateHeights
    /\ pc = "parse_ultimates"
    /\ idx = 0
    /\ left_ultimates = <<>> /\ left_standards = <<>> /\ left_models = <<>>
    /\ hero0_dims = <<>> /\ hero1_dims = <<>>
    /\ ability1_dims = <<>> /\ ability2_dims = <<>>
    /\ left_heroes = <<>> /\ left_selected = <<>>
    /\ right_ultimates = <<>> /\ right_standards = <<>> /\ right_models = <<>>
    /\ right_heroes = <<>> /\ right_selected = <<>>
    /\ coords = <<>>
    /\ validation = <<>>
    /\ clicked_points = <<>>
    /\ zoom_mode = FALSE /\ loupe_mode = FALSE /\ event = "none"
    /\ files = {} /\ response = None
    /\ run = 1 /\ first_coords = <<>>

\* the document has every category with the number of regions the calculation
\* gives it
WholeDocument(doc) ==
    \A c \in 1..Len(ExpectedCounts) :
        /\ ExpectedCounts[c].category \in DOMAIN doc
        /\ Len(doc[ExpectedCounts[c].category]) = ExpectedCounts[c].expected

\* a caller hands validate_coordinates an edited copy of the calculated document
EditCoords ==
    /\ pc = "returned"
    /\ points \in EditedInputs
    /\ WholeDocument(coords)
    /\ \E e \in Edits :
         /\ e.op # "none"
         /\ coords' = EditDocument(coords, e)
    /\ UNCHANGED <<inputVars, pc, idx, left_ultimates, left_standards, left_models,
                   anchorVars, left_heroes, left_selected, rightVars, validation>>
    /\ UNCHANGED <<collectVars, mainVars, callVars>>

NextValidate ==
    \/ ParseUltimates
    \/ ParseStandards
    \/ ParseModels
    \/ ParseHeroes
    \/ ParseSelected
    \/ GenerateLeft
    \/ ApplyLeftOrders
    \/ MirrorToRight
    \/ Combine
    \/ EditCoords
    \/ Validate

SpecValidate == InitValidate /\ [][NextValidate]_vars

----------------------------------------------------------------------------
(* main: the click backup, the calculation, validation, the continue       *)
(* prompt, the visualization and the output file.  A typed answer is a     *)
(* sequence of characters.                                                 *)

\* str.lower() on the characters the explored answers use
LowerChar(ch) ==
    IF ch = "Y" THEN "y"
    ELSE IF ch = "N" THEN "n"
    ELSE IF ch = "E" THEN "e"
    ELSE IF ch = "S" THEN "s"
    ELSE ch

Lower(str) == [i \in 1..Len(str) |-> LowerChar(str[i])]

\* response.lower() != 'y' is false: the run continues
Continues_on_any_answer(answer) == TRUE

Continues(answer) == Lower(answer) = <<"y">>

\* what the operator may type at the prompt
Responses ==
    {<<"y">>, <<"Y">>, <<"n">>, <<"N">>, <<>>, <<"y", "e", "s">>, <<"y", "y">>}

InitMain ==
    /\ points \in EditedInputs
    /\ screen_width \in ScreenWidths
    /\ screen_height \in ValidateHeights
    /\ pc = "save_clicks"
    /\ idx = 0
    /\ left_ultimates = <<>> /\ left_standards = <<>> /\ left_models = <<>>
    /\ hero0_dims = <<>> /\ hero1_dims = <<>>
    /\ ability1_dims = <<>> /\ ability2_dims = <<>>
    /\ left_heroes = <<>> /\ left_selected = <<>>
    /\ right_ultimates = <<>> /\ right_standards = <<>> /\ right_models = <<>>
    /\ right_heroes = <<>> /\ right_selected = <<>>
    /\ coords = <<>>
    /\ validation = <<>>
    /\ clicked_points = points
    /\ zoom_mode = FALSE /\ loupe_mode = FALSE /\ event = "none"
    /\ files = {} /\ response = None
    /\ run = 1 /\ first_coords = <<>>

calcVars ==
    <<idx, left_ultimates, left_standards, left_models, anchorVars,
      left_heroes, left_selected, rightVars, coords, validation>>

\* json.dump({'resolution': ..., 'clicks': points}) to the clicks backup
SaveClicks ==
    /\ pc = "save_clicks"
    /\ files' = files \cup {"clicks"}
    /\ pc' = "parse_ultimates"
    /\ UNCHANGED <<inputVars, calcVars, collectVars, response, callVars>>

\* if not validation['passed'] is false: no prompt
ValidationPassed ==
    /\ pc = "validated"
    /\ validation.passed
    /\ pc' = "visualize"
    /\ UNCHANGED <<inputVars, calcVars, collectVars, mainVars, callVars>>

\* response = input(...); if response.lower() != 'y': sys.exit(1)
PromptOperator ==
    /\ pc = "validated"
    /\ ~validation.passed
    /\ \E answer \in Responses :
         /\ response' = Some(answer)
         /\ pc' = IF Continues(answer) THEN "visualize" ELSE "exit"
    /\ UNCHANGED <<inputVars, calcVars, collectVars, files, callVars>>

\* draw_visualization(args.screenshot, calculated_coords, viz_path)
DrawVisualization ==
    /\ pc = "visualize"
    /\ files' = files \cup {"visualization"}
    /\ pc' = "write_output"
    /\ UNCHANGED <<inputVars, calcVars, collectVars, response, callVars>>

\* json.dump(output_data, f) to args.output
WriteOutput ==
    /\ pc = "write_output"
    /\ files' = files \cup {"output"}
    /\ pc' = "done"
    /\ UNCHANGED <<inputVars, calcVars, collectVars, response, callVars>>

NextMain ==
    \/ SaveClicks
    \/ ParseUltimates
    \/ ParseStandards
    \/ ParseModels
    \/ ParseHeroes
    \/ ParseSelected
    \/ GenerateLeft
    \/ ApplyLeftOrders
    \/ MirrorToRight
    \/ Combine
    \/ Validate
    \/ ValidationPassed
    \/ PromptOperator
    \/ DrawVisualization
    \/ WriteOutput

SpecMain == InitMain /\ [][NextMain]_vars

----------------------------------------------------------------------------
(* Two calls of calculate_coordinates_from_clicks in one process, on the   *)
(* same arguments; between the calls the module-level click list may have  *)
(* been reset or changed by the capture front-end.                         *)

\* the clicks whose displaced layouts are calculated twice: the first click
\* of each category
CallClicks ==
    {1,
     2 * NumUltimates + 1,
     2 * (NumUltimates + NumStandards) + 1,
     2 * (NumUltimates + NumStandards + NumModels) + 1,
     2 * (NumUltimates + NumStandards + NumModels + NumHeroAnchors) + 1}

CallInputs ==
    {InputPoints(NumClicks, k, d[1], d[2]) : k \in CallClicks, d \in Displacements}

\* what the module-level clicked_points may hold when the second call starts
GlobalLists == {<<>>, points, Tail(points)}

\* idx = 0 at the entry of a call
EntryIdx_left_over == idx

EntryIdx == 0

InitTwice ==
    /\ points \in CallInputs
    /\ screen_width \in ScreenWidths
    /\ screen_height \in ValidateHeights
    /\ pc = "parse_ultimates"
    /\ idx = 0
    /\ left_ultimates = <<>> /\ left_standards = <<>> /\ left_models = <<>>
    /\ hero0_dims = <<>> /\ hero1_dims = <<>>
    /\ ability1_dims = <<>> /\ ability2_dims = <<>>
    /\ left_heroes = <<>> /\ left_selected = <<>>
    /\ right_ultimates = <<>> /\ right_standards = <<>> /\ right_models = <<>>
    /\ right_heroes = <<>> /\ right_selected = <<>>
    /\ coords = <<>>
    /\ validation = <<>>
    /\ clicked_points = points
    /\ zoom_mode = FALSE /\ loupe_mode = FALSE /\ event = "none"
    /\ files = {} /\ response = None
    /\ run = 1 /\ first_coords = <<>>

\* the second call: a new frame with coords = {} and idx = 0, the same
\* arguments, whatever the module-level list holds by then
CallAgain ==
    /\ pc = "returned"
    /\ run = 1
    /\ run' = 2
    /\ first_coords' = coords
    /\ clicked_points' \in GlobalLists
    /\ coords' = <<>>
    /\ idx' = EntryIdx
    /\ left_ultimates' = <<>> /\ left_standards' = <<>> /\ left_models' = <<>>
    /\ hero0_dims' = <<>> /\ hero1_dims' = <<>>
    /\ ability1_dims' = <<>> /\ ability2_dims' = <<>>
    /\ left_heroes' = <<>> /\ left_selected' = <<>>
    /\ right_ultimates' = <<>> /\ right_standards' = <<>> /\ right_models' = <<>>
    /\ right_heroes' = <<>> /\ right_selected' = <<>>
    /\ pc' = "parse_ultimates"
    /\ UNCHANGED <<inputVars, validation, zoom_mode, loupe_mode, event, mainVars>>

NextTwice ==
    \/ ParseUltimates
    \/ ParseStandards
    \/ ParseModels
    \/ ParseHeroes
    \/ ParseSelected
    \/ GenerateLeft
    \/ ApplyLeftOrders
    \/ MirrorToRight
    \/ Combine
    \/ CallAgain

SpecTwice == InitTwice /\ [][NextTwice]_vars

----------------------------------------------------------------------------
(* collect_68_clicks: the mouse callback and the key loop.  Both run on    *)
(* the thread that calls cv2.waitKey, one event at a time.                 *)

\* the first clicks that may also land on OffClick instead of their reference point
MaxOffSlot == 2

OffClick == <<0, 0>>

\* the screenshots explored, as (width, height): one shown as it is, two
\* scaled down for display (by 0.75 and by 0.5)
ImageSizes == {<<1920, 1080>>, <<2560, 1440>>, <<3840, 1080>>}

\* min() of two true-division results
RatMin(p, q) == IF p.num * q.den <= q.num * p.den THEN p ELSE q

\* scale = 1.0, or min(1920/original_width, 1080/original_height) when the
\* image is larger than the display; exact in floats for the explored sizes
DisplayScale(original_width, original_height) ==
    IF original_height > 1080 \/ original_width > 1920
    THEN RatMin(TrueDiv(1920, original_width), TrueDiv(1080, original_height))
    ELSE TrueDiv(1, 1)

\* int(v / scale)
ScaleBack(v, scale) == IntTrunc([num |-> v * scale.den, den |-> scale.num])

\* [(int(x/scale), int(y/scale)) for x, y in clicked_points] if scale != 1.0
ScaledBack(buffer, scale) ==
    IF scale.num # scale.den
    THEN [i \in 1..Len(buffer) |->
            <<ScaleBack(buffer[i][1], scale), ScaleBack(buffer[i][2], scale)>>]
    ELSE buffer

\* len(clicked_points) >= 68
BufferFull_above(buffer) == Len(buffer) > NumClicks

BufferFull(buffer) == Len(buffer) >= NumClicks

\* clicked_points.pop()
Pop_front(buffer) == Tail(buffer)

Pop(buffer) == SubSeq(buffer, 1, Len(buffer) - 1)

\* where the operator may click next
ClickChoices ==
    {ReferenceClick(Len(clicked_points) + 1)}
    \cup (IF Len(clicked_points) < MaxOffSlot THEN {OffClick} ELSE {})

InitCollect ==
    /\ points = <<>>
    /\ \E size \in ImageSizes : screen_width = size[1] /\ screen_height = size[2]
    /\ pc = "collect"
    /\ idx = 0
    /\ left_ultimates = <<>> /\ left_standards = <<>> /\ left_models = <<>>
    /\ hero0_dims = <<>> /\ hero1_dims = <<>>
    /\ ability1_dims = <<>> /\ ability2_dims = <<>>
    /\ left_heroes = <<>> /\ left_selected = <<>>
    /\ right_ultimates = <<>> /\ right_standards = <<>> /\ right_models = <<>>
    /\ right_heroes = <<>> /\ right_selected = <<>>
    /\ coords = <<>>
    /\ validation = <<>>
    /\ clicked_points = <<>>
    /\ zoom_mode = FALSE /\ loupe_mode = FALSE /\ event = "none"
    /\ files = {} /\ response = None
    /\ run = 1 /\ first_coords = <<>>

\* mouse_callback on EVENT_LBUTTONDOWN at (x, y)
Click ==
    /\ pc = "collect"
    /\ event' = "click"
    /\ \E click \in ClickChoices :
         clicked_points' =
            IF BufferFull(clicked_points) THEN clicked_points
            ELSE Append(clicked_points, click)
    /\ UNCHANGED <<inputVars, pc, calcVars, zoom_mode, loupe_mode, mainVars, callVars>>

\* key == ord('u')
KeyUndo ==
    /\ pc = "collect"
    /\ event' = "u"
    /\ clicked_points' =
         IF Len(clicked_points) > 0 THEN Pop(clicked_points) ELSE clicked_points
    /\ UNCHANGED <<inputVars, pc, calcVars, zoom_mode, loupe_mode, mainVars, callVars>>

\* key == ord('r')
KeyReset ==
    /\ pc = "collect"
    /\ event' = "r"
    /\ clicked_points' = <<>>
    /\ UNCHANGED <<inputVars, pc, calcVars, zoom_mode, loupe_mode, mainVars, callVars>>

\* key == ord('z')
KeyZoom ==
    /\ pc = "collect"
    /\ event' = "z"
    /\ zoom_mode' = ~zoom_mode
    /\ UNCHANGED <<inputVars, pc, calcVars, clicked_points, loupe_mode, mainVars, callVars>>

\* key == ord('l')
KeyLoupe ==
    /\ pc = "collect"
    /\ event' = "l"
    /\ loupe_mode' = ~loupe_mode
    /\ UNCHANGED <<inputVars, pc, calcVars, clicked_points, zoom_mode, mainVars, callVars>>

\* key == ord('q'): sys.exit(0)
KeyQuit ==
    /\ pc = "collect"
    /\ event' = "q"
    /\ pc' = "quit"
    /\ UNCHANGED <<inputVars, calcVars, clicked_points, zoom_mode, loupe_mode,
                   mainVars, callVars>>

\* key == 13: with 68 clicks the loop ends, the clicks are scaled back and
\* returned to main
KeyEnter ==
    /\ pc = "collect"
    /\ event' = "enter"
    /\ IF Len(clicked_points) = NumClicks
       THEN /\ clicked_points' =
                 ScaledBack(clicked_points, DisplayScale(screen_width, screen_height))
            /\ points' = clicked_points'
            /\ pc' = "save_clicks"
       ELSE UNCHANGED <<clicked_points, points, pc>>
    /\ UNCHANGED <<screen_width, screen_height, calcVars, zoom_mode, loupe_mode,
                   mainVars, callVars>>

NextCollect ==
    \/ Click
    \/ KeyUndo
    \/ KeyReset
    \/ KeyZoom
    \/ KeyLoupe
    \/ KeyQuit
    \/ KeyEnter

SpecCollect == InitCollect /\ [][NextCollect]_vars

----------------------------------------------------------------------------
(* Properties *)

\* calculate_coordinates_from_clicks has returned its document
Returned == pc \in {"returned", "validated"}

\* the left and right halves of a category of the document
LeftHalf(category) == SubSeq(coords[category], 1, Len(coords[category]) \div 2)
RightHalf(category) ==
    SubSeq(coords[category], (Len(coords[category]) \div 2) + 1, Len(coords[category]))

HeroOrdersOf(items) == [i \in 1..Len(items) |-> items[i].hero_order]

\* C1: for every 68-point input and every screen width the returned document
\* holds 12 ultimate slots, 36 standard slots, 12 models, 10 heroes and 40
\* selected-ability slots, each list being the left elements followed by as
\* many right elements.
C1_CategoryCounts ==
    (Returned /\ Len(points) = 68) =>
        /\ Len(coords.ultimate_slots_coords) = 12
        /\ Len(coords.standard_slots_coords) = 36
        /\ Len(coords.models_coords) = 12
        /\ Len(coords.heroes_coords) = 10
        /\ Len(coords.selected_abilities_coords) = 40
        /\ coords.ultimate_slots_coords =
             ToDicts(left_ultimates) \o ToDicts(right_ultimates)
        /\ coords.standard_slots_coords =
             ToDicts(left_standards) \o ToDicts(right_standards)
        /\ coords.models_coords = ToDicts(left_models) \o ToDicts(right_models)
        /\ coords.heroes_coords = ToDicts(left_heroes) \o ToDicts(right_heroes)
        /\ coords.selected_abilities_coords =
             ToDicts(left_selected) \o ToDicts(right_selected)
        /\ Len(left_ultimates) = 6 /\ Len(right_ultimates) = 6
        /\ Len(left_standards) = 18 /\ Len(right_standards) = 18
        /\ Len(left_models) = 6 /\ Len(right_models) = 6
        /\ Len(left_heroes) = 5 /\ Len(right_heroes) = 5
        /\ Len(left_selected) = 20 /\ Len(right_selected) = 20

C1_Witness ==
    /\ pc = "returned"
    /\ Len(points) = 68
    /\ Len(coords.heroes_coords) = 10
    /\ Len(coords.selected_abilities_coords) = 40

\* the width a region of a category is mirrored with: its own, or the
\* category's shared one
MirrorWidth(category, item) ==
    IF category = "heroes_coords" THEN coords.heroes_params.width
    ELSE IF category = "selected_abilities_coords"
    THEN coords.selected_abilities_params.width
    ELSE item.width

\* C2: every right region is the exact reflection of the left region it is
\* produced for, mirrored_x + width = screen_width - x with the same y, for
\* even and odd screen widths; x = 50, width 100, screen width 1920 gives 1770.
C2_MirrorExact ==
    /\ mirror_coordinate(50, 0, 100, 0, 1920) = <<1770, 0>>
    /\ Returned =>
         \A category \in Categories :
            /\ Len(LeftHalf(category)) = Len(RightHalf(category))
            /\ \A i \in 1..Len(LeftHalf(category)) :
                 LET l == LeftHalf(category)[i]
                     r == RightHalf(category)[i]
                 IN  /\ r.x + MirrorWidth(category, l) = screen_width - l.x
                     /\ r.y = l.y

C2_Witness ==
    /\ pc = "returned"
    /\ screen_width % 2 = 1
    /\ \E i \in 1..6 : coords.ultimate_slots_coords[i].width < 0
    /\ coords.heroes_coords[6].x + coords.heroes_params.width
         = screen_width - coords.heroes_coords[1].x

\* C3: in the final document the left ultimate slots carry hero orders
\* 0,1,2,3,4,10 and the right ones 7,6,5,11,9,8, whatever the mirroring had
\* copied from the left side.
C3_UltimateOrders ==
    Returned =>
        /\ HeroOrdersOf(LeftHalf("ultimate_slots_coords")) = <<0, 1, 2, 3, 4, 10>>
        /\ HeroOrdersOf(RightHalf("ultimate_slots_coords")) = <<7, 6, 5, 11, 9, 8>>

C3_Witness ==
    /\ pc = "returned"
    /\ HeroOrdersOf(MirroredUltimates)
         = <<Some(0), Some(1), Some(2), Some(3), Some(4), Some(11)>>
    /\ HeroOrdersOf(RightHalf("ultimate_slots_coords")) = <<7, 6, 5, 11, 9, 8>>

\* C4: left standard slot i (0..17) has hero order [0,1,2,3,4,10][i div 3] and
\* ability order (i mod 3) + 1; right standard slot i has hero order
\* [5,6,7,8,9,11][i div 3] and the same ability order.
C4_StandardOrders ==
    Returned =>
        /\ Len(LeftHalf("standard_slots_coords")) = 18
        /\ Len(RightHalf("standard_slots_coords")) = 18
        /\ \A i \in 0..17 :
             LET l == LeftHalf("standard_slots_coords")[i + 1]
                 r == RightHalf("standard_slots_coords")[i + 1]
             IN  /\ l.hero_order = <<0, 1, 2, 3, 4, 10>>[(i \div 3) + 1]
                 /\ l.ability_order = (i % 3) + 1
                 /\ r.hero_order = <<5, 6, 7, 8, 9, 11>>[(i \div 3) + 1]
                 /\ r.ability_order = (i % 3) + 1

C4_Witness ==
    /\ pc = "returned"
    /\ [i \in 1..3 |-> coords.standard_slots_coords[i].ability_order] = <<1, 2, 3>>
    /\ [i \in 1..3 |-> coords.standard_slots_coords[i].hero_order] = <<0, 0, 0>>
    /\ coords.standard_slots_coords[36].hero_order = 11

\* C5: in models, heroes and selected abilities every right element's hero
\* order is that of the left element it mirrors plus 5, except that 10 gives
\* 11; the right models carry 5,6,7,8,9,11, the right heroes 5..9, and no right
\* hero order exceeds 11.
C5_OffsetOrders ==
    Returned =>
        /\ \A category \in {"models_coords", "heroes_coords", "selected_abilities_coords"} :
             /\ Len(LeftHalf(category)) = Len(RightHalf(category))
             /\ \A i \in 1..Len(LeftHalf(category)) :
                  LET l == LeftHalf(category)[i].hero_order
                      r == RightHalf(category)[i].hero_order
                  IN  /\ r = (IF l = 10 THEN 11 ELSE l + 5)
                      /\ r <= 11
        /\ HeroOrdersOf(RightHalf("models_coords")) = <<5, 6, 7, 8, 9, 11>>
        /\ HeroOrdersOf(RightHalf("heroes_coords")) = <<5, 6, 7, 8, 9>>

C5_Witness ==
    /\ pc = "returned"
    /\ coords.models_coords[6].hero_order = 10
    /\ coords.models_coords[12].hero_order = 11
    /\ coords.selected_abilities_coords[40].hero_order = 9

\* some region of the document has a negative width or height: its own, or
\* the shared one of its category
NegativeDimension ==
    \/ \E category \in {"ultimate_slots_coords", "standard_slots_coords", "models_coords"} :
         \E i \in 1..Len(coords[category]) :
            coords[category][i].width < 0 \/ coords[category][i].height < 0
    \/ coords.heroes_params.width < 0 \/ coords.heroes_params.height < 0
    \/ coords.selected_abilities_params.width < 0
    \/ coords.selected_abilities_params.height < 0

\* corner pair j (0-based, in click order) was clicked in reversed order
ReversedPair(j) ==
    LET a == points[2 * j + 1]
        b == points[2 * j + 2]
    IN  IF j < NumUltimates
        THEN b[1] < a[1] \/ a[2] < b[2]
        ELSE b[1] < a[1] \/ b[2] < a[2]

\* the corner pairs whose rectangle's size reaches the document: the
\* ultimates, standards and models, the first hero anchor and the first
\* selected-ability anchor
SizedPairs ==
    (0..(NumUltimates + NumStandards + NumModels - 1))
    \cup {NumUltimates + NumStandards + NumModels,
          NumUltimates + NumStandards + NumModels + NumHeroAnchors}

\* C6: whenever a corner pair is supplied reversed, so that a computed width
\* or height is negative, the negative dimension is kept in the document and
\* validate_coordinates reports at least one error, so that passed is false.
C6_ReversedCornersRejected ==
    (pc = "validated" /\ \E j \in SizedPairs : ReversedPair(j)) =>
        /\ NegativeDimension
        /\ Len(validation.errors) >= 1
        /\ ~validation.passed

\* C7: a point sequence whose length is not exactly 68 never yields a
\* document: the calculation aborts before returning one.
C7_WrongLengthAborts ==
    Len(points) # 68 => ~Returned

\* C8: generate_heroes returns five boxes with hero orders 0..4 and nothing but
\* a position: boxes 0 and 1 at the anchors' own x, y; box k in 2..4 at the
\* first anchor's x and y = second anchor's y + (k - 1) * spacing; consecutive
\* boxes are one spacing apart; no hero order 10 or 11.
C8_GeneratedHeroes ==
    pc \in {"apply_left", "mirror", "combine", "returned", "validated"} =>
        LET spacing == hero1_dims.y - hero0_dims.y
        IN  /\ Len(left_heroes) = 5
            /\ \A k \in 0..4 :
                 /\ left_heroes[k + 1].hero_order = Some(k)
                 /\ left_heroes[k + 1].width = None
                 /\ left_heroes[k + 1].height = None
            /\ left_heroes[1].x = hero0_dims.x /\ left_heroes[1].y = hero0_dims.y
            /\ left_heroes[2].x = hero1_dims.x /\ left_heroes[2].y = hero1_dims.y
            /\ \A k \in 2..4 :
                 /\ left_heroes[k + 1].x = hero0_dims.x
                 /\ left_heroes[k + 1].y = hero1_dims.y + (k - 1) * spacing
            /\ \A k \in 1..4 : left_heroes[k + 1].y - left_heroes[k].y = spacing
            /\ \A k \in 1..5 : left_heroes[k].hero_order \notin {Some(10), Some(11)}
            /\ hero0_dims.x = points[61][1] /\ hero0_dims.y = points[61][2]
            /\ hero1_dims.x = points[63][1] /\ hero1_dims.y = points[63][2]

C8_Witness ==
    /\ pc = "apply_left"
    /\ hero1_dims.x # hero0_dims.x
    /\ hero1_dims.y - hero0_dims.y # 5
    /\ left_heroes[2].x # left_heroes[3].x

\* C9: generate_selected_abilities returns 20 slots, four per hero in hero-box
\* order: slot j of hero p is at x = first anchor's x + j * (second anchor's
\* x - first anchor's x), y = first anchor's y + (box p's y - box 0's y), has
\* hero order p and is the ultimate slot exactly when j = 3.
C9_GeneratedSelected ==
    pc \in {"apply_left", "mirror", "combine", "returned", "validated"} =>
        /\ Len(left_selected) = 20
        /\ \A p \in 0..4 : \A j \in 0..3 :
             LET slot == left_selected[4 * p + j + 1]
             IN  /\ slot.x = ability1_dims.x + j * (ability2_dims.x - ability1_dims.x)
                 /\ slot.y = ability1_dims.y + (left_heroes[p + 1].y - left_heroes[1].y)
                 /\ slot.hero_order = left_heroes[p + 1].hero_order
                 /\ slot.hero_order = Some(p)
                 /\ slot.is_ultimate = Some(j = 3)
        /\ \A p \in 0..4 :
             Cardinality({j \in 0..3 : left_selected[4 * p + j + 1].is_ultimate = Some(TRUE)}) = 1
        /\ ability1_dims.x = points[65][1] /\ ability1_dims.y = points[65][2]
        /\ ability2_dims.x = points[67][1]

C9_Witness ==
    /\ pc = "apply_left"
    /\ ability2_dims.x - ability1_dims.x = 1
    /\ left_selected[20].is_ultimate = Some(TRUE)
    /\ left_selected[20].x = ability1_dims.x + 3

\* the regions of a category that carry a hero order
CarrierCount(category, h) ==
    Cardinality({i \in 1..Len(coords[category]) : coords[category][i].hero_order = h})

HeroOrderSet(category) ==
    {coords[category][i].hero_order : i \in 1..Len(coords[category])}

\* C10 as stated: within each of the five categories no two regions carry the
\* same hero order, and 10 and 11 appear only in the categories with bonus
\* heroes.
C10_UniqueInEveryCategory ==
    Returned =>
        /\ \A category \in Categories :
             \A i, j \in 1..Len(coords[category]) :
                i # j => coords[category][i].hero_order # coords[category][j].hero_order
        /\ \A category \in Categories :
             ({10, 11} \cap HeroOrderSet(category) # {}) =>
                category \in {"ultimate_slots_coords", "standard_slots_coords", "models_coords"}

\* C10 amended: hero orders are unique within the ultimates, the models and
\* the heroes; in the standards every hero order is carried by exactly three
\* regions, with ability orders 1, 2, 3, and in the selected abilities by
\* exactly four; 10 and 11 both appear in the ultimates, standards and models
\* and in no other category.
C10_UniquePerGroup ==
    Returned =>
        /\ \A category \in {"ultimate_slots_coords", "models_coords", "heroes_coords"} :
             \A h \in HeroOrderSet(category) : CarrierCount(category, h) = 1
        /\ \A h \in HeroOrderSet("standard_slots_coords") :
             /\ CarrierCount("standard_slots_coords", h) = 3
             /\ {coords.standard_slots_coords[i].ability_order :
                   i \in {n \in 1..Len(coords.standard_slots_coords) :
                            coords.standard_slots_coords[n].hero_order = h}} = {1, 2, 3}
        /\ \A h \in HeroOrderSet("selected_abilities_coords") :
             CarrierCount("selected_abilities_coords", h) = 4
        /\ \A category \in {"ultimate_slots_coords", "standard_slots_coords", "models_coords"} :
             {10, 11} \subseteq HeroOrderSet(category)
        /\ \A category \in {"heroes_coords", "selected_abilities_coords"} :
             {10, 11} \cap HeroOrderSet(category) = {}

C10_Witness ==
    /\ pc = "returned"
    /\ coords.standard_slots_coords[1].hero_order = coords.standard_slots_coords[2].hero_order
    /\ coords.selected_abilities_coords[1].hero_order
         = coords.selected_abilities_coords[4].hero_order
    /\ 11 \in HeroOrderSet("models_coords")

\* the fields a region of a category carries in the document
FieldsOf(category) ==
    IF category = "standard_slots_coords"
    THEN {"x", "y", "width", "height", "hero_order", "ability_order"}
    ELSE IF category \in {"ultimate_slots_coords", "models_coords"}
    THEN {"x", "y", "width", "height", "hero_order"}
    ELSE IF category = "heroes_coords"
    THEN {"x", "y", "hero_order"}
    ELSE {"x", "y", "hero_order", "is_ultimate"}

\* C12: in the returned document every ultimate-slot, standard-slot and model
\* region carries its own width and height, every hero and selected-ability
\* region carries neither, every field that is present holds a value (an
\* integer, or a boolean for is_ultimate) and never null, and heroes_params and
\* selected_abilities_params are the width and height of the first hero anchor
\* and of the first selected-ability anchor.
C12_PresentFieldsOnly ==
    Returned =>
        /\ \A category \in Categories :
             \A i \in 1..Len(coords[category]) :
                LET item == coords[category][i]
                IN  /\ DOMAIN item = FieldsOf(category)
                    /\ \A k \in DOMAIN item :
                         IF k = "is_ultimate" THEN item[k] \in BOOLEAN
                         ELSE item[k] \in Int
        /\ \A category \in {"ultimate_slots_coords", "standard_slots_coords", "models_coords"} :
             \A i \in 1..Len(coords[category]) :
                {"width", "height"} \subseteq DOMAIN coords[category][i]
        /\ \A category \in {"heroes_coords", "selected_abilities_coords"} :
             \A i \in 1..Len(coords[category]) :
                {"width", "height"} \cap DOMAIN coords[category][i] = {}
        /\ coords.heroes_params =
             [width |-> points[62][1] - points[61][1],
              height |-> points[62][2] - points[61][2]]
        /\ coords.selected_abilities_params =
             [width |-> points[66][1] - points[65][1],
              height |-> points[66][2] - points[65][2]]
        /\ DOMAIN coords = Categories \cup {"heroes_params", "selected_abilities_params"}

C12_Witness ==
    /\ pc = "returned"
    /\ left_heroes[1].width = None
    /\ left_selected[1].ability_order = None
    /\ "width" \notin DOMAIN coords.heroes_coords[1]
    /\ "ability_order" \notin DOMAIN coords.selected_abilities_coords[1]
    /\ coords.heroes_params.width = 2
    /\ coords.ultimate_slots_coords[1].width = 3

\* the rectangle of a parsed Coord, as the dims dict it was built from
DimsOf(c) == [x |-> c.x, y |-> c.y, width |-> Val(c.width), height |-> Val(c.height)]

\* C14: the two corner conventions agree: bottom-left (a, b) with top-right
\* (c, d) resolved by calculate_from_bottom_left_top_right is the rectangle
\* that calculate_from_top_left_bottom_right resolves from top-left (a, d) and
\* bottom-right (c, b), namely x = a, y = d, width = c - a, height = b - d;
\* bl = (100, 200), tr = (150, 180) gives x 100, y 180, width 50, height 20.
C14_ConventionsAgree ==
    /\ calculate_from_bottom_left_top_right(<<100, 200>>, <<150, 180>>)
         = [x |-> 100, y |-> 180, width |-> 50, height |-> 20]
    /\ calculate_from_top_left_bottom_right(<<100, 180>>, <<150, 200>>)
         = [x |-> 100, y |-> 180, width |-> 50, height |-> 20]
    /\ Len(left_ultimates) = NumUltimates =>
         \A i \in 1..NumUltimates :
            LET bl == points[2 * i - 1]
                tr == points[2 * i]
            IN  /\ DimsOf(left_ultimates[i])
                     = calculate_from_top_left_bottom_right(
                           <<bl[1], tr[2]>>, <<tr[1], bl[2]>>)
                /\ DimsOf(left_ultimates[i])
                     = [x |-> bl[1], y |-> tr[2],
                        width |-> tr[1] - bl[1], height |-> bl[2] - tr[2]]
    /\ Len(left_standards) = NumStandards =>
         \A n \in 1..NumStandards :
            LET tl == points[2 * NumUltimates + 2 * n - 1]
                br == points[2 * NumUltimates + 2 * n]
            IN  /\ DimsOf(left_standards[n])
                     = calculate_from_bottom_left_top_right(
                           <<tl[1], br[2]>>, <<br[1], tl[2]>>)
                /\ DimsOf(left_standards[n])
                     = [x |-> tl[1], y |-> tl[2],
                        width |-> br[1] - tl[1], height |-> br[2] - tl[2]]

C14_Witness ==
    /\ pc = "parse_models"
    /\ points[1] = <<2, 5>>
    /\ DimsOf(left_ultimates[1]) = [x |-> 2, y |-> 2, width |-> 1, height |-> 3]
    /\ DimsOf(left_standards[1]) = [x |-> 16, y |-> 2, width |-> 1, height |-> 1]

\* position and size of every element of a list
GeometryOf(elements) ==
    [i \in 1..Len(elements) |->
        <<elements[i].x, elements[i].y, elements[i].width, elements[i].height>>]

\* ability_order and is_ultimate of every element of a list
FlagsOf(elements) ==
    [i \in 1..Len(elements) |-> <<elements[i].ability_order, elements[i].is_ultimate>>]

\* C15: stamping the hero orders changes only hero_order / ability_order and
\* leaves x, y, width and height of every region as they were; mirroring copies
\* ability_order and is_ultimate unchanged from the source region; producing
\* and stamping the right half leaves every left region's position, size and
\* stamped orders unchanged.
C15_FrameEffects ==
    [][/\ pc = "apply_left" =>
            /\ GeometryOf(left_ultimates') = GeometryOf(left_ultimates)
            /\ GeometryOf(left_standards') = GeometryOf(left_standards)
            /\ GeometryOf(left_models') = GeometryOf(left_models)
            /\ FlagsOf(left_ultimates') = FlagsOf(left_ultimates)
            /\ FlagsOf(left_models') = FlagsOf(left_models)
            /\ \A n \in 1..Len(left_standards) :
                 left_standards'[n].is_ultimate = left_standards[n].is_ultimate
            /\ left_heroes' = left_heroes
            /\ left_selected' = left_selected
       /\ pc = "mirror" =>
            /\ left_ultimates' = left_ultimates
            /\ left_standards' = left_standards
            /\ left_models' = left_models
            /\ left_heroes' = left_heroes
            /\ left_selected' = left_selected
            /\ GeometryOf(right_ultimates') = GeometryOf(MirroredUltimates)
            /\ GeometryOf(right_standards') = GeometryOf(MirroredStandards)
            /\ FlagsOf(MirroredUltimates) = FlagsOf(left_ultimates)
            /\ FlagsOf(MirroredStandards) = FlagsOf(left_standards)
            /\ FlagsOf(right_ultimates') = FlagsOf(left_ultimates)
            /\ FlagsOf(right_standards') = FlagsOf(left_standards)
            /\ FlagsOf(right_models') = FlagsOf(left_models)
            /\ FlagsOf(right_heroes') = FlagsOf(left_heroes)
            /\ FlagsOf(right_selected') = FlagsOf(left_selected)
      ]_vars

C15_Witness ==
    /\ pc = "combine"
    /\ left_ultimates[6].hero_order = Some(10)
    /\ right_ultimates[6].hero_order = Some(8)
    /\ left_ultimates[6].width = Some(-1)
    /\ right_ultimates[6].width = Some(-1)
    /\ left_standards[2].ability_order = Some(2)
    /\ right_standards[2].ability_order = Some(2)
    /\ right_selected[4].is_ultimate = Some(TRUE)

\* right region r is the reflection of left region l of a category
IsMirrorOf(category, l, r) ==
    /\ r.x + MirrorWidth(category, l) = screen_width - l.x
    /\ r.y = l.y
    /\ r.width = l.width
    /\ r.height = l.height

\* C17: in the ultimates, standards and models of the final document the
\* right region that is the geometric mirror of the left region stamped 10 is
\* stamped 11, and the mirror of no other left region is stamped 11.
C17_BonusMirrorsBonus ==
    Returned =>
        \A category \in {"ultimate_slots_coords", "standard_slots_coords", "models_coords"} :
            \A i \in 1..Len(LeftHalf(category)) :
                \A j \in 1..Len(RightHalf(category)) :
                    LET l == LeftHalf(category)[i]
                        r == RightHalf(category)[j]
                    IN  IsMirrorOf(category, l, r) =>
                            (l.hero_order = 10 <=> r.hero_order = 11)

\* the number of regions a category must hold
ExpectedCountOf(category) ==
    IF category = "ultimate_slots_coords" THEN 12
    ELSE IF category = "standard_slots_coords" THEN 36
    ELSE IF category = "heroes_coords" THEN 10
    ELSE IF category = "selected_abilities_coords" THEN 40
    ELSE 12

\* width and height of a region: its own where present, else the shared
\* parameters of its category
RegionWidth(category, item) ==
    IF "width" \in DOMAIN item THEN item.width
    ELSE IF category = "heroes_coords" THEN coords.heroes_params.width
    ELSE coords.selected_abilities_params.width

RegionHeight(category, item) ==
    IF "height" \in DOMAIN item THEN item.height
    ELSE IF category = "heroes_coords" THEN coords.heroes_params.height
    ELSE coords.selected_abilities_params.height

PresentCategories == Categories \cap DOMAIN coords

\* every check the document violates, as the error entry it must produce
ViolatedChecks ==
    UNION {UNION {
        (IF coords[category][i].x < 0 \/ coords[category][i].y < 0
         THEN {Error(category, i - 1, "Negative coordinates")} ELSE {})
        \cup (IF coords[category][i].x + RegionWidth(category, coords[category][i])
                    > screen_width
              THEN {Error(category, i - 1, "Extends beyond width")} ELSE {})
        \cup (IF coords[category][i].y + RegionHeight(category, coords[category][i])
                    > screen_height
              THEN {Error(category, i - 1, "Extends beyond height")} ELSE {})
        : i \in 1..Len(coords[category])} : category \in PresentCategories}
    \cup {Error(category, -1, "Missing category") : category \in Categories \ DOMAIN coords}
    \cup {Error(category, -1, "Expected count") :
            category \in {c \in PresentCategories : Len(coords[c]) # ExpectedCountOf(c)}}

\* every region is inside the screen and every category is present and whole
AllChecksHold ==
    \A category \in Categories :
        /\ category \in DOMAIN coords
        /\ Len(coords[category]) = ExpectedCountOf(category)
        /\ \A i \in 1..Len(coords[category]) :
             LET item == coords[category][i]
             IN  /\ item.x >= 0
                 /\ item.y >= 0
                 /\ item.x + RegionWidth(category, item) <= screen_width
                 /\ item.y + RegionHeight(category, item) <= screen_height

\* the regions whose right edge is exactly the screen's right edge
TouchingRightEdge ==
    {<<category, i>> \in PresentCategories \X (1..40) :
        /\ i <= Len(coords[category])
        /\ coords[category][i].x + RegionWidth(category, coords[category][i])
             = screen_width}

AnsweredY == response = Some(<<"y">>)

\* C16 as stated: the output file is written only after validation has run and
\* either passed or the operator answered y; when validation fails and the
\* operator answers anything else, the run exits without the output file, the
\* click backup being the only file produced.
C16_WrittenOnlyAfterY ==
    /\ "output" \in files =>
         /\ validation # <<>>
         /\ validation.passed \/ AnsweredY
    /\ (validation # <<>> /\ ~validation.passed /\ response # None /\ ~AnsweredY) =>
         /\ pc = "exit"
         /\ files = {"clicks"}

\* C16 amended: the output file is written only after validation has run and
\* either passed or the operator's answer, lower-cased, is y (so y or Y); when
\* validation fails and the lower-cased answer is anything else, the run exits
\* with the click backup as the only file; the backup exists before the
\* calculation starts.
C16_WrittenOnlyAfterAcknowledged ==
    /\ "output" \in files =>
         /\ validation # <<>>
         /\ \/ validation.passed /\ response = None
            \/ ~validation.passed /\ response \in {Some(<<"y">>), Some(<<"Y">>)}
    /\ (validation # <<>> /\ ~validation.passed /\ response # None
          /\ response \notin {Some(<<"y">>), Some(<<"Y">>)}) =>
         /\ pc = "exit"
         /\ files = {"clicks"}
    /\ pc = "exit" => (files = {"clicks"} /\ ~validation.passed)
    /\ pc # "save_clicks" => "clicks" \in files
    /\ pc = "done" => files = {"clicks", "visualization", "output"}

C16_Witness ==
    /\ pc = "done"
    /\ ~validation.passed
    /\ response = Some(<<"Y">>)
    /\ "output" \in files

C18_BufferBounded ==
    [][/\ Len(clicked_points') \in 0..68
       /\ (event' = "click" /\ Len(clicked_points) = 68) =>
             /\ clicked_points' = clicked_points
             /\ pc' = "collect"
       /\ (event' = "enter" /\ Len(clicked_points) # 68) =>
             /\ pc' = "collect"
             /\ clicked_points' = clicked_points
             /\ points' = <<>>
       /\ event' \in {"click", "u", "r", "z", "l"} => (pc' = "collect" /\ points' = <<>>)
       /\ pc' = "save_clicks" =>
             /\ event' = "enter"
             /\ Len(clicked_points) = 68
             /\ Len(points') = 68
      ]_vars

C18_Witness ==
    /\ pc = "save_clicks"
    /\ event = "enter"
    /\ Len(points) = 68
    /\ points[1] = OffClick
    /\ zoom_mode /\ loupe_mode

\* C19: while zoom mode is on, a left-button click adds no point to the click
\* buffer.
C19_NoClicksWhileZoomed ==
    [][(zoom_mode /\ event' = "click") => clicked_points' = clicked_points]_vars

\* C20 as stated: undo removes exactly the most recently recorded point and
\* keeps the earlier ones in order, undo on an empty buffer leaves it empty,
\* reset empties it, a click after an undo or reset is appended to the buffer
\* ENTER inspects, and the returned sequence is exactly the buffer's points.
C20_ReturnsTheBuffer ==
    [][/\ event' = "u" =>
             /\ Len(clicked_points) > 0 =>
                  /\ Len(clicked_points') = Len(clicked_points) - 1
                  /\ \A i \in 1..Len(clicked_points') :
                       clicked_points'[i] = clicked_points[i]
             /\ clicked_points = <<>> => clicked_points' = <<>>
       /\ event' = "r" => clicked_points' = <<>>
       /\ (event' = "click" /\ Len(clicked_points) < 68) =>
             /\ Len(clicked_points') = Len(clicked_points) + 1
             /\ SubSeq(clicked_points', 1, Len(clicked_points)) = clicked_points
       /\ event' \in {"z", "l", "q"} => clicked_points' = clicked_points
       /\ pc' = "save_clicks" => points' = clicked_points
      ]_vars

\* C20 amended: the same, except that the returned sequence is the buffer's
\* points each scaled back to the original image, (int(x / scale),
\* int(y / scale)), when the screenshot is larger than 1920 x 1080, and the
\* buffer's points themselves otherwise.
C20_ReturnsTheBufferScaledBack ==
    [][/\ event' = "u" =>
             /\ Len(clicked_points) > 0 =>
                  /\ Len(clicked_points') = Len(clicked_points) - 1
                  /\ \A i \in 1..Len(clicked_points') :
                       clicked_points'[i] = clicked_points[i]
             /\ clicked_points = <<>> => clicked_points' = <<>>
       /\ event' = "r" => clicked_points' = <<>>
       /\ (event' = "click" /\ Len(clicked_points) < 68) =>
             /\ Len(clicked_points') = Len(clicked_points) + 1
             /\ SubSeq(clicked_points', 1, Len(clicked_points)) = clicked_points
       /\ event' \in {"z", "l", "q"} => clicked_points' = clicked_points
       /\ pc' = "save_clicks" =>
             /\ Len(points') = Len(clicked_points)
             /\ \A i \in 1..Len(clicked_points) :
                  IF screen_width > 1920 \/ screen_height > 1080
                  THEN LET scale == DisplayScale(screen_width, screen_height)
                       IN  \A c \in 1..2 :
                             /\ points'[i][c] * scale.num <= clicked_points[i][c] * scale.den
                             /\ (points'[i][c] + 1) * scale.num > clicked_points[i][c] * scale.den
                  ELSE points'[i] = clicked_points[i]
      ]_vars

C20_Witness ==
    /\ pc = "save_clicks"
    /\ screen_width = 2560
    /\ points[1] = OffClick
    /\ points[3] = <<8, 4>>
    /\ clicked_points = points

====
